---- MODULE Spec2Model ----
(***************************************************************************)
(* Model of service/models.py: the Promotion entity, its validation and    *)
(* lifecycle (create / update / delete), the serialize / deserialize       *)
(* codec, the finders and the best-promotion selector.                     *)
(*                                                                         *)
(* A datetime is an integer count of microseconds.  Python's None is the   *)
(* string "None" for a description and the id NoId for a primary key.      *)
(***************************************************************************)
EXTENDS Integers, Sequences, FiniteSets, TLC

VARIABLES objs, store, nextId, clock, op, ret

vars == <<objs, store, nextId, clock, op, ret>>

----------------------------------------------------------------------------
(* Bounds of the model *)

MaxObjs == 1      \* in-memory Promotion objects the callers hold
MaxId == 2        \* primary keys the store hands out
MaxTime == 2      \* the clock runs over 0..MaxTime
MaxRows == 2      \* rows of a store drawn for the finders

NoId == 0         \* self.id = None

Handles == 1..MaxObjs
Ids == 1..MaxId
Time == 0..MaxTime

----------------------------------------------------------------------------
(* TypeOfPromo and the table schema *)

TypeOfPromo == {"Discount", "BOGOF", "Unknown"}

NoObj == [absent |-> TRUE]
NoRow == [absent |-> TRUE]

FieldNames ==
    {"product_name", "category", "product_id", "amount", "description",
     "from_date", "to_date"}

\* The column values of an object: every attribute but the primary key.
Fields(p) ==
    [product_name |-> p.product_name, category |-> p.category,
     product_id |-> p.product_id, amount |-> p.amount,
     description |-> p.description,
     from_date |-> p.from_date, to_date |-> p.to_date]

\* A Promotion object: the column values and the primary key.
Promotion(id, f) ==
    [id |-> id, product_name |-> f.product_name, category |-> f.category,
     product_id |-> f.product_id, amount |-> f.amount,
     description |-> f.description,
     from_date |-> f.from_date, to_date |-> f.to_date]

\* Rows over given domains of the columns.
RowsOver(names, cats, pids, amounts, descs, froms, tos) ==
    [product_name : names, category : cats, product_id : pids,
     amount : amounts, description : descs, from_date : froms, to_date : tos]

IsPersistent(p) == p # NoObj /\ p.id # NoId

----------------------------------------------------------------------------
(* The session: commit writes every persistent object's attributes. *)

Commit(os, st) ==
    [i \in Ids |->
        IF \E h \in Handles : IsPersistent(os[h]) /\ os[h].id = i
        THEN Fields(os[CHOOSE h \in Handles : IsPersistent(os[h]) /\ os[h].id = i])
        ELSE st[i]]

Ok == [kind |-> "ok", error |-> "none"]
Raise(e) == [kind |-> "raise", error |-> e]

----------------------------------------------------------------------------
(* Lifecycle: construction, attribute assignment, create, update, delete *)

LifeNames == {"a"}
LifePids == {1}
LifeAmounts == {0, 1, 100, 101}
LifeDescs == {"None"}
LifeDates == {0}

LifeRows ==
    RowsOver(LifeNames, TypeOfPromo, LifePids, LifeAmounts, LifeDescs,
             LifeDates, LifeDates)

LifeDomain(f) ==
    CASE f = "product_name" -> LifeNames
      [] f = "category" -> TypeOfPromo
      [] f = "product_id" -> LifePids
      [] f = "amount" -> LifeAmounts
      [] f = "description" -> LifeDescs
      [] f = "from_date" -> LifeDates
      [] f = "to_date" -> LifeDates

\* Promotion(**fields): a transient object, no identity yet.
New(h, f) ==
    /\ objs[h] = NoObj
    /\ objs' = [objs EXCEPT ![h] = Promotion(NoId, f)]
    /\ op' = [name |-> "new", h |-> h]
    /\ ret' = Ok
    /\ UNCHANGED <<store, nextId, clock>>

\* promotion.<f> = v on an object the caller holds.
SetField(h, f, v) ==
    /\ objs[h] # NoObj
    /\ objs[h][f] # v
    /\ objs' = [objs EXCEPT ![h][f] = v]
    /\ op' = [name |-> "set", h |-> h]
    /\ ret' = Ok
    /\ UNCHANGED <<store, nextId, clock>>

\* A check that turns away a discount of 100 percent too.
CreateRaisesFrom100(p) ==
    IF p.category = "Discount" /\ p.amount >= 100 THEN TRUE
    ELSE IF p.amount <= 0 THEN TRUE
    ELSE FALSE

\* The two checks of create(), in the order of the code.
CreateRaises(p) ==
    IF p.category = "Discount" /\ p.amount > 100 THEN TRUE
    ELSE IF p.amount <= 0 THEN TRUE
    ELSE FALSE

\* create() on a transient object: validate, add to the session, commit.
Create(h) ==
    /\ objs[h] # NoObj
    /\ objs[h].id = NoId
    /\ nextId <= MaxId
    /\ op' = [name |-> "create", h |-> h]
    /\ IF CreateRaises(objs[h])
       THEN /\ ret' = Raise("DataValidationError")
            /\ UNCHANGED <<objs, store, nextId>>
       ELSE /\ objs' = [objs EXCEPT ![h].id = nextId]
            /\ store' = Commit(objs', store)
            /\ nextId' = nextId + 1
            /\ ret' = Ok
    /\ UNCHANGED clock

\* An update() that runs the checks of create().
UpdateChecked(p) == IF CreateRaises(p) THEN Raise("DataValidationError") ELSE Ok

\* What update() answers for the object: it runs no check.
UpdateResult(p) == Ok

\* update(): commit the session.
Update(h) ==
    /\ objs[h] # NoObj
    /\ op' = [name |-> "update", h |-> h]
    /\ ret' = UpdateResult(objs[h])
    /\ IF ret'.kind = "ok"
       THEN store' = Commit(objs, store)
       ELSE UNCHANGED store
    /\ UNCHANGED <<objs, nextId, clock>>

\* delete() on a persistent object: delete from the session, commit.
Delete(h) ==
    /\ IsPersistent(objs[h])
    /\ objs' = [objs EXCEPT ![h] = NoObj]
    /\ store' = [Commit(objs', store) EXCEPT ![objs[h].id] = NoRow]
    /\ op' = [name |-> "delete", h |-> h]
    /\ ret' = Ok
    /\ UNCHANGED <<nextId, clock>>

Init ==
    /\ objs = [h \in Handles |-> NoObj]
    /\ store = [i \in Ids |-> NoRow]
    /\ nextId = 1
    /\ clock = 0
    /\ op = [name |-> "init", h |-> 0]
    /\ ret = Ok

Next ==
    \/ \E h \in Handles, f \in LifeRows : New(h, f)
    \/ \E h \in Handles, f \in FieldNames : \E v \in LifeDomain(f) : SetField(h, f, v)
    \/ \E h \in Handles : Create(h)
    \/ \E h \in Handles : Update(h)
    \/ \E h \in Handles : Delete(h)

Spec == Init /\ [][Next]_vars

----------------------------------------------------------------------------
(* Claims about create and update (Spec) *)

\* C1: create() raises DataValidationError exactly when amount <= 0 or the
\* category is Discount and amount > 100; otherwise it succeeds and the
\* record is in the store afterwards.
C1_CreateValidation ==
    op.name = "create" =>
      LET p == objs[op.h] IN
      /\ ret.kind = "raise"
           <=> (p.amount <= 0 \/ (p.category = "Discount" /\ p.amount > 100))
      /\ ret.kind = "raise" => ret.error = "DataValidationError" /\ p.id = NoId
      /\ ret.kind = "ok" => p.id \in Ids /\ store[p.id] = Fields(p)

\* A Discount of exactly 100 has been created and is stored.
C1_Witness ==
    /\ op.name = "create"
    /\ ret.kind = "ok"
    /\ objs[op.h].category = "Discount"
    /\ objs[op.h].amount = 100
    /\ store[objs[op.h].id] = Fields(objs[op.h])

\* C10: update() never raises DataValidationError and stores the object's
\* current attributes, whatever they are.
C10_UpdateUnchecked ==
    op.name = "update" =>
      /\ ret.kind = "ok"
      /\ IsPersistent(objs[op.h]) => store[objs[op.h].id] = Fields(objs[op.h])

\* After create(), an assignment and update(), the store holds a Discount
\* of more than 100 or an amount that is not positive.
C10_Witness ==
    /\ op.name = "update"
    /\ ret.kind = "ok"
    /\ IsPersistent(objs[op.h])
    /\ LET r == store[objs[op.h].id] IN
         r.amount <= 0 \/ (r.category = "Discount" /\ r.amount > 100)

----------------------------------------------------------------------------
(* serialize and deserialize *)

\* A string is the sequence of its characters.
Digits == <<"0", "1", "2", "3", "4", "5", "6", "7", "8", "9">>

IsDigit(c) == \E d \in DOMAIN Digits : Digits[d] = c
DigitValue(c) == (CHOOSE d \in DOMAIN Digits : Digits[d] = c) - 1

\* n written with w digits, zero filled
RECURSIVE Padded(_, _)
Padded(n, w) ==
    IF w = 0 THEN <<>> ELSE Append(Padded(n \div 10, w - 1), Digits[(n % 10) + 1])

\* the number a string of digits writes
RECURSIVE Number(_)
Number(s) ==
    IF s = <<>> THEN 0
    ELSE 10 * Number(SubSeq(s, 1, Len(s) - 1)) + DigitValue(s[Len(s)])

AllDigits(s) == \A k \in DOMAIN s : IsDigit(s[k])

MicrosPerSecond == 1000 * 1000

\* datetime.isoformat() with seconds only: the minute the datetimes of the
\* model fall in is written "T"; the microseconds are left out.
IsoformatSeconds(dt) == <<"T">> \o Padded(dt \div MicrosPerSecond, 2)

\* datetime.isoformat(): the seconds, then the six digits of the
\* microseconds unless they are zero.
Isoformat(dt) ==
    <<"T">> \o Padded(dt \div MicrosPerSecond, 2)
      \o (IF dt % MicrosPerSecond = 0 THEN <<>>
          ELSE <<".">> \o Padded(dt % MicrosPerSecond, 6))

\* datetime.fromisoformat(s): seconds, then nothing or a fraction of three
\* or six digits; anything else is a ValueError.
Fromisoformat(s) ==
    LET secs == SubSeq(s, 2, 3)
        frac == SubSeq(s, 5, Len(s))
        head == Len(s) >= 3 /\ s[1] = "T" /\ AllDigits(secs) /\ Number(secs) < 60
    IN  IF head /\ Len(s) = 3
        THEN [exc |-> "none", val |-> Number(secs) * MicrosPerSecond]
        ELSE IF head /\ Len(s) \in {7, 10} /\ s[4] = "." /\ AllDigits(frac)
        THEN [exc |-> "none",
              val |-> Number(secs) * MicrosPerSecond
                      + (IF Len(frac) = 3 THEN 1000 * Number(frac) ELSE Number(frac))]
        ELSE [exc |-> "ValueError", val |-> 0]

\* Values of a request body: a str, an int or a datetime.
PyStr(v) == [str |-> v]
PyInt(v) == [int |-> v]
PyDatetime(v) == [datetime |-> v]

\* isinstance(v, str)
IsStr(v) == DOMAIN v = {"str"}

\* the value itself
Raw(v) == IF IsStr(v) THEN v.str ELSE IF DOMAIN v = {"int"} THEN v.int ELSE v.datetime

DataKeys == FieldNames \cup {"id"}

\* A dict with the given keys
Dict(keys, get) == [kind |-> "dict", keys |-> keys, get |-> get]

\* A body that is no dict: None, or a str
NotADict(kind) == [kind |-> kind, keys |-> {}, get |-> <<>>]

\* serialize()
Serialize(p) ==
    Dict(DataKeys,
         [id |-> p.id,
          product_name |-> p.product_name,
          category |-> PyStr(p.category),
          product_id |-> p.product_id,
          amount |-> p.amount,
          description |-> p.description,
          from_date |-> PyStr(Isoformat(p.from_date)),
          to_date |-> PyStr(Isoformat(p.to_date))])

\* data[k]
GetItem(data, k) ==
    IF data.kind # "dict" THEN [exc |-> "TypeError", val |-> 0]
    ELSE IF k \notin data.keys THEN [exc |-> "KeyError", val |-> 0]
    ELSE [exc |-> "none", val |-> data.get[k]]

\* Attributes of the class TypeOfPromo that are no members of it
ClassAttributes == {"__doc__", "__members__"}

\* getattr(TypeOfPromo, name)
GetattrTypeOfPromo(name) ==
    IF ~IsStr(name) THEN [exc |-> "TypeError", val |-> 0]
    ELSE IF name.str \in TypeOfPromo \cup ClassAttributes
    THEN [exc |-> "none", val |-> name.str]
    ELSE [exc |-> "AttributeError", val |-> 0]

\* a str that is not empty goes through fromisoformat; any other value is
\* assigned as it is
ConvertDate(v) ==
    IF IsStr(v) /\ v.str # <<>> THEN Fromisoformat(v.str)
    ELSE [exc |-> "none", val |-> Raw(v)]

\* The value deserialize assigns to the attribute k from data[k]
Convert(k, v) ==
    IF k = "category" THEN GetattrTypeOfPromo(v)
    ELSE IF k \in {"from_date", "to_date"} THEN ConvertDate(v)
    ELSE [exc |-> "none", val |-> v]

\* The assignments of deserialize, in the order of the code
Assigned ==
    <<"product_name", "category", "product_id", "amount", "description",
      "from_date", "to_date">>

\* The try block from its k-th assignment on: the attributes assigned before
\* an exception stay assigned.
RECURSIVE TryAssign(_, _, _)
TryAssign(self, data, k) ==
    IF k > Len(Assigned) THEN [obj |-> self, exc |-> "none"]
    ELSE LET got == GetItem(data, Assigned[k])
             new == Convert(Assigned[k], got.val)
         IN  IF got.exc # "none" THEN [obj |-> self, exc |-> got.exc]
             ELSE IF new.exc # "none" THEN [obj |-> self, exc |-> new.exc]
             ELSE TryAssign([self EXCEPT ![Assigned[k]] = new.val], data, k + 1)

\* The except clauses
Caught(exc) ==
    IF exc \in {"AttributeError", "KeyError", "TypeError"}
    THEN "DataValidationError" ELSE exc

\* deserialize(data) on the object h
Deserialize(h, data) ==
    LET r == TryAssign(objs[h], data, 1) IN
    /\ objs[h] # NoObj
    /\ objs' = [objs EXCEPT ![h] = r.obj]
    /\ op' = [name |-> "deserialize", h |-> h, data |-> data, before |-> objs[h]]
    /\ ret' = IF r.exc = "none" THEN Ok ELSE Raise(Caught(r.exc))
    /\ UNCHANGED <<store, nextId, clock>>

\* deserialize(p.serialize()) on the object h
RoundTrip(h, p) ==
    LET r == TryAssign(objs[h], Serialize(p), 1) IN
    /\ objs[h] # NoObj
    /\ objs' = [objs EXCEPT ![h] = r.obj]
    /\ op' = [name |-> "roundtrip", h |-> h, src |-> p, before |-> objs[h]]
    /\ ret' = IF r.exc = "none" THEN Ok ELSE Raise(Caught(r.exc))
    /\ UNCHANGED <<store, nextId, clock>>

CodecDates == {0, 5, MicrosPerSecond + 500000}
CodecRows ==
    RowsOver({"a", "b"}, TypeOfPromo, {1, 2}, {1, 100}, {"None", "d"},
             CodecDates, CodecDates)

\* valid promotions, transient or persistent
CodecObjs == {Promotion(id, f) : id \in {NoId} \cup Ids, f \in CodecRows}

\* the body of a well-formed request
GoodData ==
    Serialize(Promotion(NoId,
        [product_name |-> "b", category |-> "BOGOF", product_id |-> 2,
         amount |-> 100, description |-> "d", from_date |-> 5, to_date |-> 5]))

\* request bodies: well-formed, with dates already typed, and with one defect
DataInputs ==
    {GoodData, NotADict("none"), NotADict("str")}
    \cup {Dict(DataKeys \ {k}, GoodData.get) : k \in DataKeys}
    \cup {Dict(DataKeys, [GoodData.get EXCEPT !.category = c]) :
            c \in {PyStr("Bogus"), PyStr("__doc__"), PyInt(5), PyStr("Unknown")}}
    \cup {Dict(DataKeys, [GoodData.get EXCEPT ![k] = d]) :
            k \in {"from_date", "to_date"},
            d \in {PyDatetime(0), PyStr(<<"n", "o", "w">>),
                   PyStr(<<"T", "0", "1", ".", "2", "5", "0">>)}}

\* the objects a request body is read into
CodecTargets ==
    {Promotion(id,
        [product_name |-> "a", category |-> "Discount", product_id |-> 1,
         amount |-> 1, description |-> "None", from_date |-> 0, to_date |-> 0]) :
       id \in {NoId} \cup Ids}

\* No call has been made yet.
Idle == op.name = "init"

InitCodec ==
    /\ objs \in [Handles -> CodecTargets]
    /\ store = [i \in Ids |-> NoRow]
    /\ nextId = 1
    /\ clock = 0
    /\ op = [name |-> "init"]
    /\ ret = Ok

NextCodec ==
    \/ Idle /\ \E h \in Handles, data \in DataInputs : Deserialize(h, data)
    \/ Idle /\ \E h \in Handles, p \in CodecObjs : RoundTrip(h, p)

SpecCodec == InitCodec /\ [][NextCodec]_vars

----------------------------------------------------------------------------
(* The clock and the query filters *)

\* A reading of datetime.now(): not earlier than the reading before it.
LaterThan(n) == {t \in Time : t >= n}

\* cls.query: the primary keys of all rows.
Query(st) == {i \in DOMAIN st : st[i] # NoRow}

FilterCategory(st, S, c) == {i \in S : st[i].category = c}
FilterProductName(st, S, n) == {i \in S : st[i].product_name = n}
FilterProductId(st, S, pid) == {i \in S : st[i].product_id = pid}
FilterFromEq(st, S, d) == {i \in S : st[i].from_date = d}
FilterToEq(st, S, d) == {i \in S : st[i].to_date = d}
FilterFromLe(st, S, n) == {i \in S : st[i].from_date <= n}
FilterToGe(st, S, n) == {i \in S : st[i].to_date >= n}
FilterInactive(st, S, n1, n2) ==
    {i \in S : st[i].from_date > n1 \/ st[i].to_date < n2}

\* The orders in which the store may hand back a set of rows.
Orders(S) ==
    {s \in [1..Cardinality(S) -> S] : \A i \in S : \E k \in DOMAIN s : s[k] = i}

Return(v) == [kind |-> "ok", error |-> "none", val |-> v]

\* A store drawn for the finders: rows over the keys 1..n.
Stores(n, rows) == [1..n -> rows \cup {NoRow}]

----------------------------------------------------------------------------
(* find_best_promotion_for_product *)

\* A float benefit as an exact fraction num/den, den > 0.
Frac(n, d) == [bound |-> TRUE, num |-> n, den |-> d]
Unbound == [bound |-> FALSE, num |-> 0, den |-> 1]

\* amount / 100.
DiscountOff(amount) == Frac(amount, 100)

\* 1. / amount, amount # 0
BogofOff(amount) == IF amount > 0 THEN Frac(1, amount) ELSE Frac(-1, -amount)

\* A selector that lets a candidate of equal benefit replace the best.
OffGe(a, b) == a.num * b.den >= b.num * a.den

\* off > max_off
OffGt(a, b) == a.num * b.den > b.num * a.den

\* The loop over promotion_list from position k on; s holds the locals
\* off, max_off and best_promotion.
RECURSIVE BestLoop(_, _, _, _)
BestLoop(st, list, k, s) ==
    IF k > Len(list) THEN Return(s.best)
    ELSE LET p == st[list[k]]
             off == IF p.category = "Discount" THEN DiscountOff(p.amount)
                    ELSE IF p.category = "BOGOF" /\ p.amount # 0
                         THEN BogofOff(p.amount)
                    ELSE s.off
         IN  IF p.category = "BOGOF" /\ p.amount = 0
             THEN Raise("ZeroDivisionError")
             ELSE IF ~off.bound
             THEN Raise("UnboundLocalError")
             ELSE IF OffGt(off, s.max_off)
             THEN BestLoop(st, list, k + 1,
                           [off |-> off, max_off |-> off, best |-> list[k]])
             ELSE BestLoop(st, list, k + 1,
                           [off |-> off, max_off |-> s.max_off, best |-> s.best])

\* The rows the three filters of the query keep.
BestCandidates(st, pid, n1, n2) ==
    FilterToGe(st, FilterFromLe(st, FilterProductId(st, Query(st), pid), n1), n2)

FindBest(pid) ==
    \E n1 \in LaterThan(clock) : \E n2 \in LaterThan(n1) :
      \E list \in Orders(BestCandidates(store, pid, n1, n2)) :
        /\ op' = [name |-> "find_best", pid |-> pid, n1 |-> n1, n2 |-> n2,
                  list |-> list]
        /\ ret' = BestLoop(store, list, 1,
                           [off |-> Unbound, max_off |-> Frac(0, 1), best |-> NoId])
        /\ clock' = n2
        /\ UNCHANGED <<objs, store, nextId>>

BestPids == {1, 2}
BestAmounts == {0, 2, 50}
BestRows ==
    RowsOver({"a"}, TypeOfPromo, BestPids, BestAmounts, {"None"}, {0}, {0, MaxTime})

\* A store of any rows: update() keeps whatever the caller assigned.
InitQuery(n, rows) ==
    /\ objs = [h \in Handles |-> NoObj]
    /\ store \in Stores(n, rows)
    /\ nextId = n + 1
    /\ clock = 0
    /\ op = [name |-> "init"]
    /\ ret = Ok

InitBest == InitQuery(MaxRows, BestRows)

NextBest == Idle /\ \E pid \in BestPids : FindBest(pid)

SpecBest == InitBest /\ [][NextBest]_vars

----------------------------------------------------------------------------
(* is_available and find_by_availability *)

\* self.from_date <= datetime.now()
FromReached(p, n) == p.from_date <= n

\* A window that closes one instant early.
EndsAfter(p, n) == p.to_date > n

\* self.to_date >= datetime.now()
NotEnded(p, n) == p.to_date >= n

\* is_available() of the object loaded from row i.  The second reading of
\* the clock is taken only when the first comparison holds.
IsAvailable(i) ==
    /\ store[i] # NoRow
    /\ \E n1 \in LaterThan(clock) :
         IF FromReached(store[i], n1)
         THEN \E n2 \in LaterThan(n1) :
                /\ op' = [name |-> "is_available", id |-> i, n1 |-> n1, n2 |-> n2]
                /\ ret' = Return(NotEnded(store[i], n2))
                /\ clock' = n2
         ELSE /\ op' = [name |-> "is_available", id |-> i, n1 |-> n1, n2 |-> n1]
              /\ ret' = Return(FALSE)
              /\ clock' = n1
    /\ UNCHANGED <<objs, store, nextId>>

\* The rows find_by_availability(available) keeps.
AvailabilityResult(st, available, n1, n2) ==
    IF available
    THEN FilterToGe(st, FilterFromLe(st, Query(st), n1), n2)
    ELSE FilterInactive(st, Query(st), n1, n2)

FindByAvailability(available) ==
    \E n1 \in LaterThan(clock) : \E n2 \in LaterThan(n1) :
      /\ op' = [name |-> "find_by_availability", available |-> available,
                n1 |-> n1, n2 |-> n2]
      /\ ret' = Return(AvailabilityResult(store, available, n1, n2))
      /\ clock' = n2
      /\ UNCHANGED <<objs, store, nextId>>

----------------------------------------------------------------------------
(* find_by_multi_attributes *)

CriteriaKeys ==
    {"category", "product_name", "product_id", "from_date", "to_date", "available"}

\* A key of args: missing, None, or a value.
Absent == [given |-> "absent"]
Null == [given |-> "null"]
Val(v) == [given |-> "value", v |-> v]

\* "k" in args and args[k] is not None
Supplied(args, k) == args[k].given = "value"

\* A category criterion: a member of TypeOfPromo, or a string given as its
\* parts between the dots.
Member(m) == [str |-> FALSE, parts |-> <<m>>]
Str(parts) == [str |-> TRUE, parts |-> parts]

\* category.split('.')[-1]
LastPart(c) == c.parts[Len(c.parts)]

\* The chain of filters, one per supplied criterion, in the order of the code.
MultiResult(st, args, n1, n2) ==
    LET r0 == Query(st)
        r1 == IF Supplied(args, "category")
              THEN FilterCategory(st, r0, LastPart(args.category.v)) ELSE r0
        r2 == IF Supplied(args, "product_name")
              THEN FilterProductName(st, r1, args.product_name.v) ELSE r1
        r3 == IF Supplied(args, "product_id")
              THEN FilterProductId(st, r2, args.product_id.v) ELSE r2
        r4 == IF Supplied(args, "from_date")
              THEN FilterFromEq(st, r3, args.from_date.v) ELSE r3
        r5 == IF Supplied(args, "to_date")
              THEN FilterToEq(st, r4, args.to_date.v) ELSE r4
        r6 == IF Supplied(args, "available")
              THEN IF args.available.v > 0
                   THEN FilterToGe(st, FilterFromLe(st, r5, n1), n2)
                   ELSE FilterInactive(st, r5, n1, n2)
              ELSE r5
    IN  Return(r6)

\* TypeOfPromo[name] of a string that names no member.
BadCategory(args) ==
    /\ Supplied(args, "category")
    /\ args.category.v.str
    /\ LastPart(args.category.v) \notin TypeOfPromo

\* The clock is read only when the available criterion is supplied.
FindByMulti(args) ==
    /\ IF BadCategory(args)
       THEN /\ op' = [name |-> "find_by_multi", args |-> args,
                      n1 |-> clock, n2 |-> clock]
            /\ ret' = Raise("KeyError")
            /\ UNCHANGED clock
       ELSE IF Supplied(args, "available")
       THEN \E n1 \in LaterThan(clock) : \E n2 \in LaterThan(n1) :
              /\ op' = [name |-> "find_by_multi", args |-> args,
                        n1 |-> n1, n2 |-> n2]
              /\ ret' = MultiResult(store, args, n1, n2)
              /\ clock' = n2
       ELSE /\ op' = [name |-> "find_by_multi", args |-> args,
                      n1 |-> clock, n2 |-> clock]
            /\ ret' = MultiResult(store, args, clock, clock)
            /\ UNCHANGED clock
    /\ UNCHANGED <<objs, store, nextId>>

----------------------------------------------------------------------------
(* One call on a store of windows *)

AvailRows ==
    RowsOver({"a"}, {"Discount"}, {1}, {50}, {"None"}, {0, MaxTime}, {1, MaxTime})

\* args with the available criterion alone
AvailArgs ==
    {[category |-> Absent, product_name |-> Absent, product_id |-> Absent,
      from_date |-> Absent, to_date |-> Absent, available |-> Val(v)] :
        v \in {0, 1}}

InitAvail == InitQuery(MaxRows + 1, AvailRows)

NextAvail ==
    \/ Idle /\ \E i \in DOMAIN store : IsAvailable(i)
    \/ Idle /\ \E b \in BOOLEAN : FindByAvailability(b)
    \/ Idle /\ \E args \in AvailArgs : FindByMulti(args)
    \/ Idle /\ FindBest(1)

SpecAvail == InitAvail /\ [][NextAvail]_vars

----------------------------------------------------------------------------
(* One call of find_by_multi_attributes on a store of varied rows *)

FindNames == {"a", "b"}
FindCategories == {"Discount", "BOGOF"}
FindPids == {1, 2}
FindRows ==
    {r \in RowsOver(FindNames, FindCategories, FindPids, {50}, {"None"},
                    {0, MaxTime}, {1, MaxTime}) :
        r.from_date = 0 <=> r.to_date = 1}

FindArgs ==
    [category : {Absent, Null, Val(Member("Discount")),
                 Val(Str(<<"TypeOfPromo", "BOGOF">>)), Val(Str(<<"Bogus">>))},
     product_name : {Absent, Null, Val("a")},
     product_id : {Absent, Null, Val(1)},
     from_date : {Absent, Null, Val(0)},
     to_date : {Absent, Null, Val(MaxTime)},
     available : {Absent, Null, Val(0 - 1), Val(0), Val(1)}]

InitFind == InitQuery(MaxRows, FindRows)

NextFind == Idle /\ \E args \in FindArgs : FindByMulti(args)

SpecFind == InitFind /\ [][NextFind]_vars

----------------------------------------------------------------------------
(* Claims about availability (SpecAvail) *)

\* The window of r holds the instant t, both ends included.
ActiveAt(r, t) == r.from_date <= t /\ t <= r.to_date

\* Every instant that tells two stores of windows apart: those of the clock,
\* one before them all and one after them all.
Instants == (0 - 1)..(MaxTime + 1)

\* C4: is_available answers as from_date <= now <= to_date does at an instant
\* now of the call, both ends included; when the clock stands still during
\* the call that instant is the one reading, so the answer is true at
\* from_date and at to_date and false one instant before from_date and one
\* after to_date; a window with to_date < from_date is never available.
C4_InclusiveWindow ==
    op.name = "is_available" =>
      LET p == store[op.id] IN
      /\ ret.kind = "ok"
      /\ \E t \in op.n1..op.n2 : ret.val = ActiveAt(p, t)
      /\ op.n1 = op.n2 => ret.val = (p.from_date <= op.n1 /\ op.n1 <= p.to_date)
      /\ (op.n1 = op.n2 /\ p.from_date <= p.to_date /\ op.n1 = p.from_date) => ret.val
      /\ (op.n1 = op.n2 /\ p.from_date <= p.to_date /\ op.n1 = p.to_date) => ret.val
      /\ (op.n1 = op.n2 /\ op.n1 = p.from_date - 1) => ~ret.val
      /\ (op.n1 = op.n2 /\ op.n1 = p.to_date + 1) => ~ret.val
      /\ p.to_date < p.from_date => ~ret.val

\* is_available read at to_date itself, on a window that opened earlier.
C4_Witness ==
    /\ op.name = "is_available"
    /\ op.n1 = op.n2
    /\ store[op.id].from_date < store[op.id].to_date
    /\ op.n1 = store[op.id].to_date
    /\ ret = Return(TRUE)

\* C8: each availability query answers for one single instant: the rows
\* returned are those active (available true) or those not active
\* (available false) at one instant, also when the clock moves in the call.
C8_SingleInstant ==
    /\ op.name = "find_by_availability" =>
         \E t \in Instants :
            ret.val = {i \in Query(store) : ActiveAt(store[i], t) = op.available}
    /\ (op.name = "find_by_multi" /\ Supplied(op.args, "available")) =>
         \E t \in Instants :
            ret.val = {i \in Query(store) :
                          ActiveAt(store[i], t) = (op.args.available.v = 1)}
    /\ op.name = "find_best" =>
         \E t \in Instants :
            {op.list[k] : k \in DOMAIN op.list}
              = {i \in Query(store) :
                    store[i].product_id = op.pid /\ ActiveAt(store[i], t)}

----------------------------------------------------------------------------
(* Claims about find_best_promotion_for_product (SpecBest) *)

IsBestCall == op.name = "find_best"

ListIds == {op.list[k] : k \in DOMAIN op.list}

\* The rows of the product whose window holds both readings of now.
ActiveRows ==
    {i \in DOMAIN store :
                 /\ store[i] # NoRow
                 /\ store[i].product_id = op.pid
                 /\ store[i].from_date <= op.n1 /\ op.n1 <= store[i].to_date
                 /\ store[i].from_date <= op.n2 /\ op.n2 <= store[i].to_date}

PositiveBenefit(r) == r.category \in {"Discount", "BOGOF"} /\ r.amount > 0

\* benefit(r1) <= benefit(r2) for rows of positive benefit:
\* amount/100 for Discount, 1/amount for BOGOF.
BenefitLe(r1, r2) ==
    LET num(r) == IF r.category = "Discount" THEN r.amount ELSE 1
        den(r) == IF r.category = "Discount" THEN 100 ELSE r.amount
    IN  num(r1) * den(r2) <= num(r2) * den(r1)

\* The answer is the first of the returned rows of maximal benefit.
IsFirstMaximal(id) ==
    /\ id \in ActiveRows
    /\ PositiveBenefit(store[id])
    /\ \A i \in ActiveRows :
          PositiveBenefit(store[i]) => BenefitLe(store[i], store[id])
    /\ \A k, m \in DOMAIN op.list :
          /\ op.list[m] = id
          /\ PositiveBenefit(store[op.list[k]])
          /\ BenefitLe(store[id], store[op.list[k]])
          => m <= k

OnlyDiscountOrBogof ==
    \A i \in ListIds : store[i].category \in {"Discount", "BOGOF"}

RowsAsCreated ==
    \A i \in DOMAIN store : store[i] # NoRow => ~CreateRaises(store[i])

\* C7: find_best_promotion_for_product returns none, raising nothing, when
\* no active candidate has a positive benefit, and it never returns a
\* candidate of category Unknown (stated for stores that create() alone
\* has filled).
C7_NoneWithoutError ==
    (IsBestCall /\ RowsAsCreated) =>
      /\ (\A i \in ListIds : ~PositiveBenefit(store[i])) => ret = Return(NoId)
      /\ (ret.kind = "ok" /\ ret.val # NoId) => store[ret.val].category # "Unknown"

----------------------------------------------------------------------------
(* Claims about find_by_multi_attributes (SpecFind) *)

IsMultiCall == op.name = "find_by_multi" /\ ~BadCategory(op.args)

\* r satisfies every supplied criterion other than available.
MatchesFields(r, args) ==
    /\ Supplied(args, "category") => r.category = LastPart(args.category.v)
    /\ Supplied(args, "product_name") => r.product_name = args.product_name.v
    /\ Supplied(args, "product_id") => r.product_id = args.product_id.v
    /\ Supplied(args, "from_date") => r.from_date = args.from_date.v
    /\ Supplied(args, "to_date") => r.to_date = args.to_date.v

\* C5: find_by_multi_attributes returns exactly the stored rows that satisfy
\* every supplied criterion; a missing or None criterion constrains nothing;
\* from_date and to_date match by equality; the available criterion, a flag
\* that is true when non-zero, is satisfied by the rows active (flag true) or
\* not active (flag false) at an instant.
C5_Conjunction ==
    IsMultiCall =>
      /\ ret.kind = "ok"
      /\ \E t \in Instants :
           ret.val = {i \in Query(store) :
                        /\ MatchesFields(store[i], op.args)
                        /\ Supplied(op.args, "available") =>
                             (ActiveAt(store[i], t) = (op.args.available.v # 0))}

\* C5 without the available criterion: the rows returned are exactly those
\* that satisfy every supplied criterion.
C5_FieldsOnly ==
    (IsMultiCall /\ ~Supplied(op.args, "available")) =>
      ret = Return({i \in Query(store) : MatchesFields(store[i], op.args)})

\* C9: a supplied available criterion is a flag, true for every non-zero
\* integer: non-zero keeps the rows with from_date <= now and to_date >= now,
\* zero keeps the rows with from_date > now or to_date < now.
C9_NonZeroIsTrue ==
    (IsMultiCall /\ Supplied(op.args, "available")) =>
      LET base == {i \in Query(store) : MatchesFields(store[i], op.args)}
          v == op.args.available.v
      IN  /\ v # 0 =>
                ret.val = {i \in base : /\ store[i].from_date <= op.n1
                                        /\ store[i].to_date >= op.n2}
          /\ v = 0 =>
                ret.val = {i \in base : \/ store[i].from_date > op.n1
                                        \/ store[i].to_date < op.n2}

\* C9 for the flags the code reads as the claim does: positive and zero.
C9_PositiveOrZero ==
    (IsMultiCall /\ Supplied(op.args, "available") /\ op.args.available.v >= 0)
    => C9_NonZeroIsTrue

----------------------------------------------------------------------------
(* Claims about serialize and deserialize (SpecCodec) *)

\* C3: deserialize(serialize(p)) succeeds and gives the object the
\* product_name, category, product_id, amount, description, from_date and
\* to_date of p; the id of p is not taken over: the object keeps its own id.
C3_RoundTrip ==
    op.name = "roundtrip" =>
      /\ ret.kind = "ok"
      /\ Fields(objs[op.h]) = Fields(op.src)
      /\ objs[op.h].id = op.before.id

\* A round trip of a promotion with microseconds in its dates into an
\* object of another id.
C3_Witness ==
    /\ op.name = "roundtrip"
    /\ op.src.id # op.before.id
    /\ op.src.from_date % MicrosPerSecond # 0
    /\ op.src.to_date % MicrosPerSecond = 0
    /\ Fields(op.before) # Fields(op.src)
    /\ Fields(objs[op.h]) = Fields(op.src)

\* C6: every failure of deserialize is a DataValidationError; no other kind
\* of error escapes it.
C6_OnlyValidationErrors ==
    (op.name = "deserialize" /\ ret.kind = "raise")
    => ret.error = "DataValidationError"

====
